---- MODULE Spec2Model ----
(***************************************************************************)
(* Model of sw.js, the offline cache proxy of patchdao: a service worker   *)
(* with three handlers (install, activate, fetch) over the host's cache    *)
(* storage.  Each handler's synchronous part is one action; every promise  *)
(* the handler chains (caches.open, addAll, caches.keys, caches.delete,    *)
(* caches.match, fetch) settles in a later action of its own, so other     *)
(* handlers interleave at exactly the suspension points of the code.       *)
(*                                                                         *)
(* Workers 1..MaxWorkers are successive deployments of this same script    *)
(* (generation tag unchanged).  Buckets of other generations exist at the  *)
(* start or are created by another generation's install (ExternalCreate).  *)
(***************************************************************************)
EXTENDS Integers, Sequences, FiniteSets, TLC

\* ---------------------------------------------------------------- bounds
MaxWorkers == 2

\* ------------------------------------------------------------- constants
CACHE == "ghost-v1"
ASSETS == <<"ghost.html", "manifest.json", "icon.svg">>

Workers == 1..MaxWorkers
AssetSet == {ASSETS[i] : i \in 1..Len(ASSETS)}
StaleNames == {"ghost-v0", "ghost-v2"}
BucketNames == StaleNames \cup {CACHE}
Requests == AssetSet \cup {"other.png"}
NetBodies == {"n1", "n2"}
None == "none"
NetErr == "neterr"
OldBody == "old"
NoBucket == "nobucket"
\* the content the site serves to the install of deployment w
SiteBody(w) == IF w % 2 = 1 THEN "n1" ELSE "n2"
\* the requests a bucket of another generation holds
PriorKeys(k) == IF k = "ghost-v0" THEN {"ghost.html", "other.png"} ELSE {"icon.svg"}

VARIABLES
    cacheNames,     \* bucket names present, in creation order (caches.keys())
    entries,        \* entries[k][r]: stored response of request r in bucket k
    external,       \* present buckets created by another generation's install
    wstate,         \* host lifecycle state of each worker
    skipWaitingCalls, \* number of self.skipWaiting() calls of each worker
    claimCalls,     \* number of self.clients.claim() calls of each worker
    instPc,         \* state of the promise given to install's e.waitUntil
    fetched,        \* addAll: response fetched for each asset so far
    assetFailed,    \* an asset fetch or the store of the install failed
    actPc,          \* state of the promise given to activate's e.waitUntil
    pendingDel,     \* caches.delete(k) promises not yet settled
    issuedDel,      \* names for which the activate issued caches.delete
    rejectedDel,    \* names whose caches.delete rejected
    fPc,            \* position of the fetch handler's promise chain
    fW,             \* worker handling the fetch
    fReq,           \* e.request
    fResp,          \* what e.respondWith's promise settled to
    fNetCalls,      \* fetch(e.request) calls made for this request
    fNetResult,     \* what the network returned for this request
    fFrom           \* bucket whose entry answered the request

cacheVars == <<cacheNames, entries, external>>
hostVars == <<wstate, skipWaitingCalls, claimCalls>>
instVars == <<instPc, fetched, assetFailed>>
actVars == <<actPc, pendingDel, issuedDel, rejectedDel>>
fetchVars == <<fPc, fW, fReq, fResp, fNetCalls, fNetResult, fFrom>>
vars == <<cacheNames, entries, external, wstate, skipWaitingCalls, claimCalls,
          instPc, fetched, assetFailed, actPc, pendingDel, issuedDel,
          rejectedDel, fPc, fW, fReq, fResp, fNetCalls, fNetResult, fFrom>>

\* --------------------------------------------------------------- helpers
Range(s) == {s[i] : i \in 1..Len(s)}
RemoveAllStale(s, k) == SelectSeq(s, LAMBDA x : x = CACHE)
Remove(s, k) == SelectSeq(s, LAMBDA x : x # k)
NoEntries == [r \in Requests |-> None]
PriorEntries(keys) == [r \in Requests |-> IF r \in keys THEN OldBody ELSE None]
Keys(k) == {r \in Requests : entries[k][r] # None}
NoFetched == [a \in AssetSet |-> None]

\* no-duplicate sequences over a set of names
OrderedSubsets(S) ==
    {<<>>} \cup {<<a>> : a \in S} \cup
    {p \in {<<a, b>> : a \in S, b \in S} : p[1] # p[2]}

\* the worker in each slot of the registration
InstallingW == {w \in Workers : wstate[w] = "installing"}
WaitingW == {w \in Workers : wstate[w] = "installed"}
ActiveW == {w \in Workers : wstate[w] \in {"activating", "activated"}}

\* ------------------------------------------------------------------ Init
Init ==
    /\ cacheNames \in OrderedSubsets(StaleNames)
    /\ entries = [k \in BucketNames |->
                    IF k \in Range(cacheNames) THEN PriorEntries(PriorKeys(k))
                    ELSE NoEntries]
    /\ external = {}
    /\ wstate = [w \in Workers |-> "parsed"]
    /\ skipWaitingCalls = [w \in Workers |-> 0]
    /\ claimCalls = [w \in Workers |-> 0]
    /\ instPc = [w \in Workers |-> "idle"]
    /\ fetched = NoFetched
    /\ assetFailed = [w \in Workers |-> FALSE]
    /\ actPc = [w \in Workers |-> "idle"]
    /\ pendingDel = [w \in Workers |-> {}]
    /\ issuedDel = [w \in Workers |-> {}]
    /\ rejectedDel = [w \in Workers |-> {}]
    /\ fPc = "idle"
    /\ fW = 0
    /\ fReq = None
    /\ fResp = None
    /\ fNetCalls = 0
    /\ fNetResult = None
    /\ fFrom = NoBucket

\* ------------------------------------------------------- install handler
\* line 6: self.skipWaiting() is a statement of the handler body
SkipWaitingAfterUnit(step) == step \in {"resolved", "rejected"}
SkipWaitingIfInstalled(step) == step = "resolved"
SkipWaitingCalled(step) == step = "handler"

\* line 5: .then(c=>c.addAll(ASSETS)) chains addAll onto the opened cache
AfterOpenNothing == "resolved"
AfterOpen == "addAll"

\* addAll rejects as soon as one request fails
AddAllTolerant(ok) == "addAll"
AddAllNext(ok) == IF ok THEN "addAll" ELSE "rejected"

\* the batch put of addAll: every asset under its request identity
AddAllPutsFirst(ents, res) ==
    [ents EXCEPT ![CACHE] = [r \in Requests |->
        IF r = ASSETS[1] THEN res[r] ELSE ents[CACHE][r]]]
AddAllPut(ents, res) ==
    [ents EXCEPT ![CACHE] = [r \in Requests |->
        IF r \in AssetSet THEN res[r] ELSE ents[CACHE][r]]]

\* a batch put that fails is undone: no entry of the batch stays
AddAllKeepsPartial(ents, res) == AddAllPutsFirst(ents, res)
AddAllAbort(ents, res) == ents

\* host: a deployment starts, the install event is dispatched and the
\* handler body runs: caches.open is issued, waitUntil holds the event open,
\* skipWaiting is called
InstallStart(w) ==
    /\ wstate[w] = "parsed"
    /\ \A v \in Workers : v < w => wstate[v] # "parsed"
    /\ InstallingW = {}
    /\ wstate' = [wstate EXCEPT ![w] = "installing"]
    /\ instPc' = [instPc EXCEPT ![w] = "open"]
    /\ fetched' = NoFetched
    /\ skipWaitingCalls' = [skipWaitingCalls EXCEPT ![w] =
            IF SkipWaitingCalled("handler") THEN @ + 1 ELSE @]
    /\ UNCHANGED <<cacheVars, claimCalls, assetFailed, actVars, fetchVars>>

\* caches.open(CACHE) settles: the bucket is created if absent, or the
\* storage refuses and the chain rejects
InstallOpen(w) ==
    /\ instPc[w] = "open"
    /\ \E ok \in BOOLEAN :
          IF ok
          THEN /\ cacheNames' = IF CACHE \in Range(cacheNames) THEN cacheNames
                                ELSE Append(cacheNames, CACHE)
               /\ instPc' = [instPc EXCEPT ![w] = AfterOpen]
          ELSE /\ cacheNames' = cacheNames
               /\ instPc' = [instPc EXCEPT ![w] = "rejected"]
    /\ UNCHANGED <<entries, external, hostVars, fetched, assetFailed,
                   actVars, fetchVars>>

\* addAll: the network answers the request of one asset, with the content
\* the site serves at the time of this deployment or with a failure
InstallFetchAsset(w, a) ==
    /\ instPc[w] = "addAll"
    /\ fetched[a] = None
    /\ \E res \in {SiteBody(w), NetErr} :
          /\ instPc' = [instPc EXCEPT ![w] = AddAllNext(res # NetErr)]
          /\ fetched' = IF instPc'[w] = "rejected" THEN NoFetched
                        ELSE [fetched EXCEPT ![a] = res]
          /\ assetFailed' = [assetFailed EXCEPT ![w] = @ \/ res = NetErr]
    /\ UNCHANGED <<cacheVars, hostVars, actVars, fetchVars>>

\* addAll: all responses are in; the batch is stored atomically or not at all
InstallStore(w) ==
    /\ instPc[w] = "addAll"
    /\ \A a \in AssetSet : fetched[a] # None
    /\ \E ok \in BOOLEAN :
          IF ok /\ CACHE \in Range(cacheNames)
          THEN /\ entries' = AddAllPut(entries, fetched)
               /\ instPc' = [instPc EXCEPT ![w] = "resolved"]
               /\ UNCHANGED assetFailed
          ELSE /\ entries' = AddAllAbort(entries, fetched)
               /\ instPc' = [instPc EXCEPT ![w] = "rejected"]
               /\ assetFailed' = [assetFailed EXCEPT ![w] = TRUE]
    /\ fetched' = NoFetched
    /\ UNCHANGED <<cacheNames, external, hostVars, actVars, fetchVars>>

\* host: the promise given to waitUntil has settled; the worker becomes
\* installed (replacing a waiting worker) or redundant
InstallFinish(w) ==
    /\ wstate[w] = "installing"
    /\ instPc[w] \in {"resolved", "rejected"}
    /\ wstate' = [v \in Workers |->
            IF v = w
            THEN (IF instPc[w] = "resolved" THEN "installed" ELSE "redundant")
            ELSE IF instPc[w] = "resolved" /\ wstate[v] = "installed"
                 THEN "redundant" ELSE wstate[v]]
    /\ skipWaitingCalls' = [skipWaitingCalls EXCEPT ![w] =
            IF SkipWaitingCalled(instPc[w]) THEN @ + 1 ELSE @]
    /\ UNCHANGED <<cacheVars, claimCalls, instVars, actVars, fetchVars>>

\* ------------------------------------------------------ activate handler
\* line 11: self.clients.claim() is a statement of the handler body
ClaimAfterUnit(step) == step \in {"resolved", "rejected"}
ClaimCalled(step) == step = "handler"

\* line 10: ks.filter(k=>k!==CACHE)
StaleOldestOnly(ks) ==
    IF SelectSeq(ks, LAMBDA k : k # CACHE) = <<>> THEN <<>>
    ELSE <<Head(SelectSeq(ks, LAMBDA k : k # CACHE))>>
StaleUnfiltered(ks) == ks
StaleNothing(ks) == <<>>
Stale(ks) == SelectSeq(ks, LAMBDA k : k # CACHE)

\* line 10: caches.delete(k) removes bucket k and its entries, nothing else
DeleteClearsAll(ents, k) == [b \in BucketNames |-> NoEntries]
DeleteEntries(ents, k) == [ents EXCEPT ![k] = NoEntries]

\* line 10: Promise.all over the delete promises: rejected by the first
\* rejection, fulfilled once every promise is fulfilled
PromiseAllHangs(pending, rejected) ==
    IF pending = {} /\ rejected = {} THEN "resolved" ELSE "deleting"
PromiseAllSettled(pending, rejected) ==
    IF pending = {} THEN "resolved" ELSE "deleting"
PromiseAll(pending, rejected) ==
    IF rejected # {} THEN "rejected"
    ELSE IF pending = {} THEN "resolved" ELSE "deleting"

\* host: the waiting worker becomes the active worker (the skip-waiting flag
\* is set or nothing is active), the activate event is dispatched and the
\* handler body runs: caches.keys is issued, waitUntil holds the event open,
\* clients.claim is called
ActivateStart(w) ==
    /\ wstate[w] = "installed"
    /\ \A v \in ActiveW : wstate[v] = "activated"
    /\ skipWaitingCalls[w] > 0 \/ ActiveW = {}
    /\ wstate' = [v \in Workers |->
            IF v = w THEN "activating"
            ELSE IF v \in ActiveW THEN "redundant" ELSE wstate[v]]
    /\ actPc' = [actPc EXCEPT ![w] = "keys"]
    /\ claimCalls' = [claimCalls EXCEPT ![w] =
            IF ClaimCalled("handler") THEN @ + 1 ELSE @]
    /\ UNCHANGED <<cacheVars, skipWaitingCalls, instVars, pendingDel,
                   issuedDel, rejectedDel, fetchVars>>

\* caches.keys() settles: the stale names are computed from the snapshot
\* and one caches.delete is issued for each
ActivateKeys(w) ==
    /\ actPc[w] = "keys"
    /\ LET stale == Range(Stale(cacheNames)) IN
          /\ issuedDel' = [issuedDel EXCEPT ![w] = stale]
          /\ pendingDel' = [pendingDel EXCEPT ![w] = stale]
          /\ actPc' = [actPc EXCEPT ![w] = PromiseAll(stale, {})]
    /\ UNCHANGED <<cacheVars, hostVars, instVars, rejectedDel, fetchVars>>

\* one caches.delete(k) settles: the bucket is gone (or was absent), or the
\* delete rejects and the bucket stays
ActivateDelete(w, k) ==
    /\ k \in pendingDel[w]
    /\ pendingDel' = [pendingDel EXCEPT ![w] = @ \ {k}]
    /\ \E ok \in BOOLEAN :
          IF ok
          THEN /\ cacheNames' = Remove(cacheNames, k)
               /\ entries' = DeleteEntries(entries, k)
               /\ external' = external \ {k}
               /\ UNCHANGED rejectedDel
          ELSE /\ rejectedDel' = [rejectedDel EXCEPT ![w] = @ \cup {k}]
               /\ UNCHANGED cacheVars
    /\ actPc' = [actPc EXCEPT ![w] =
            IF @ = "deleting" THEN PromiseAll(pendingDel'[w], rejectedDel'[w])
            ELSE @]
    /\ UNCHANGED <<hostVars, instVars, issuedDel, fetchVars>>

\* host: the promise given to waitUntil has settled, either way the worker
\* is activated
ActivateFinish(w) ==
    /\ wstate[w] = "activating"
    /\ actPc[w] \in {"resolved", "rejected"}
    /\ wstate' = [wstate EXCEPT ![w] = "activated"]
    /\ claimCalls' = [claimCalls EXCEPT ![w] =
            IF ClaimCalled(actPc[w]) THEN @ + 1 ELSE @]
    /\ UNCHANGED <<cacheVars, skipWaitingCalls, instVars, actVars, fetchVars>>

\* --------------------------------------------------------- fetch handler
\* line 15: caches.match(e.request) looks in every bucket, in creation
\* order, and yields the first entry found
MatchCurrentOnly(r) ==
    IF CACHE \in Range(cacheNames) /\ entries[CACHE][r] # None
    THEN CACHE ELSE NoBucket
MatchBucket(r) ==
    LET idx == {i \in 1..Len(cacheNames) : entries[cacheNames[i]][r] # None}
    IN IF idx = {} THEN NoBucket
       ELSE cacheNames[CHOOSE i \in idx : \A j \in idx : i <= j]

\* line 15: r||fetch(e.request)
HitNever(r) == FALSE
HitAlways(r) == TRUE
Hit(r) == r # None

\* line 15: the promise of fetch(e.request) is the response; nothing is
\* put into a cache
WriteBack(ents, req, res) ==
    IF res # NetErr /\ CACHE \in Range(cacheNames)
    THEN [ents EXCEPT ![CACHE][req] = res] ELSE ents
AfterNetwork(ents, req, res) == ents

\* line 15: what respondWith receives from the network branch
OfflineFallback(res) == IF res = NetErr THEN OldBody ELSE res
NetworkResponse(res) == res

\* host: a request of a controlled client is dispatched to the activated
\* worker; the handler body calls caches.match and respondWith
FetchStart(w, r) ==
    /\ fPc = "idle"
    /\ wstate[w] = "activated"
    /\ fPc' = "match"
    /\ fW' = w
    /\ fReq' = r
    /\ UNCHANGED <<cacheVars, hostVars, instVars, actVars, fResp, fNetCalls,
                   fNetResult, fFrom>>

\* caches.match settles and the .then callback runs
FetchMatch ==
    /\ fPc = "match"
    /\ LET b == MatchBucket(fReq)
           r == IF b = NoBucket THEN None ELSE entries[b][fReq]
       IN IF Hit(r)
          THEN /\ fResp' = r
               /\ fFrom' = b
               /\ fPc' = "responded"
               /\ UNCHANGED fNetCalls
          ELSE /\ fNetCalls' = fNetCalls + 1
               /\ fPc' = "net"
               /\ UNCHANGED <<fResp, fFrom>>
    /\ UNCHANGED <<cacheVars, hostVars, instVars, actVars, fW, fReq, fNetResult>>

\* fetch(e.request) settles with a response or a network error
FetchNet ==
    /\ fPc = "net"
    /\ \E res \in NetBodies \cup {NetErr} :
          /\ fNetResult' = res
          /\ fResp' = NetworkResponse(res)
          /\ entries' = AfterNetwork(entries, fReq, res)
    /\ fPc' = "responded"
    /\ UNCHANGED <<cacheNames, external, hostVars, instVars, actVars, fW,
                   fReq, fNetCalls, fFrom>>

\* host: the response is delivered to the client
FetchDone ==
    /\ fPc = "responded"
    /\ fPc' = "idle"
    /\ fW' = 0
    /\ fReq' = None
    /\ fResp' = None
    /\ fNetCalls' = 0
    /\ fNetResult' = None
    /\ fFrom' = NoBucket
    /\ UNCHANGED <<cacheVars, hostVars, instVars, actVars>>

\* ----------------------------------------------------------- environment
\* another generation's install opens its bucket and stores its assets
ExternalCreate(k) ==
    /\ k \notin Range(cacheNames)
    /\ cacheNames' = Append(cacheNames, k)
    /\ entries' = [entries EXCEPT ![k] = PriorEntries(PriorKeys(k))]
    /\ external' = external \cup {k}
    /\ UNCHANGED <<hostVars, instVars, actVars, fetchVars>>

\* ------------------------------------------------------------------ Next
Next ==
    \/ \E w \in Workers : InstallStart(w)
    \/ \E w \in Workers : InstallOpen(w)
    \/ \E w \in Workers, a \in AssetSet : InstallFetchAsset(w, a)
    \/ \E w \in Workers : InstallStore(w)
    \/ \E w \in Workers : InstallFinish(w)
    \/ \E w \in Workers : ActivateStart(w)
    \/ \E w \in Workers : ActivateKeys(w)
    \/ \E w \in Workers, k \in StaleNames \cup {CACHE} : ActivateDelete(w, k)
    \/ \E w \in Workers : ActivateFinish(w)
    \/ \E w \in Workers, r \in Requests : FetchStart(w, r)
    \/ FetchMatch
    \/ FetchNet
    \/ FetchDone
    \/ \E k \in StaleNames : ExternalCreate(k)

Spec == Init /\ [][Next]_vars

\* every cache or network operation a unit awaits eventually returns
OperationsReturn ==
    /\ WF_vars(\E w \in Workers : InstallOpen(w))
    /\ WF_vars(\E w \in Workers, a \in AssetSet : InstallFetchAsset(w, a))
    /\ WF_vars(\E w \in Workers : InstallStore(w))
    /\ WF_vars(\E w \in Workers : ActivateKeys(w))
    /\ WF_vars(\E w \in Workers, k \in StaleNames \cup {CACHE} : ActivateDelete(w, k))

\* the install and activate units with the environment, under that
\* assumption; the fetch handler shares no state with the units
NextUnits ==
    \/ \E w \in Workers : InstallStart(w)
    \/ \E w \in Workers : InstallOpen(w)
    \/ \E w \in Workers, a \in AssetSet : InstallFetchAsset(w, a)
    \/ \E w \in Workers : InstallStore(w)
    \/ \E w \in Workers : InstallFinish(w)
    \/ \E w \in Workers : ActivateStart(w)
    \/ \E w \in Workers : ActivateKeys(w)
    \/ \E w \in Workers, k \in StaleNames \cup {CACHE} : ActivateDelete(w, k)
    \/ \E w \in Workers : ActivateFinish(w)
    \/ \E k \in StaleNames : ExternalCreate(k)

FairSpec == Init /\ [][NextUnits]_vars /\ OperationsReturn

TypeOK ==
    /\ Range(cacheNames) \subseteq BucketNames
    /\ Len(cacheNames) = Cardinality(Range(cacheNames))
    /\ \A k \in BucketNames : k \notin Range(cacheNames) => entries[k] = NoEntries
    /\ external \subseteq Range(cacheNames) \cap StaleNames
    /\ Cardinality(InstallingW) <= 1
    /\ Cardinality(WaitingW) <= 1
    /\ Cardinality(ActiveW) <= 1

\* ---------------------------------------------------------------- claims
Settled == {"resolved", "rejected"}
Live == {"installed", "activating", "activated"}

C2_OnlyCurrentBucket ==
    \A w \in Workers :
        (wstate[w] \in {"activating", "activated"} /\ actPc[w] = "resolved"
            /\ external = {})
        => Range(cacheNames) = {CACHE}

C2_Witness ==
    \E w \in Workers :
        /\ wstate[w] = "activated"
        /\ actPc[w] = "resolved"
        /\ Cardinality(issuedDel[w]) = 2
        /\ external = {}
        /\ Range(cacheNames) = {CACHE}

\* C3: a fetch whose request is in no bucket when the lookup settles calls
\* the network exactly once and responds with exactly what the network
\* returned.
C3_MissGoesToNetworkOnce ==
    /\ [][(fPc = "match" /\ fPc' # "match"
             /\ \A k \in Range(cacheNames) : entries[k][fReq] = None)
          => (fPc' = "net" /\ fNetCalls' = 1)]_vars
    /\ [](fPc = "net" => fNetCalls = 1)
    /\ []((fPc = "responded" /\ fFrom = NoBucket) =>
            (fNetCalls = 1 /\ fNetResult # None /\ fResp = fNetResult))

C3_Witness ==
    /\ fPc = "responded"
    /\ fReq = "other.png"
    /\ fFrom = NoBucket
    /\ fNetCalls = 1
    /\ fNetResult \in NetBodies
    /\ fResp = fNetResult

\* C4: a worker one of whose asset fetches, or whose store, failed has a
\* rejected install unit and is never installed (nor activated).
C4_FailedAssetFailsInstall ==
    \A w \in Workers :
        assetFailed[w] =>
            (instPc[w] = "rejected" /\ wstate[w] \in {"installing", "redundant"})

C4_Witness ==
    \E w \in Workers :
        /\ assetFailed[w]
        /\ instPc[w] = "rejected"
        /\ wstate[w] = "redundant"

\* C5: no activate issues a delete for CACHE; the current bucket is present
\* while a worker is active, and no step of an activate unit removes it or
\* changes its entries.
C5_CurrentBucketKept ==
    /\ [](\A w \in Workers :
            /\ CACHE \notin issuedDel[w]
            /\ wstate[w] \in {"activating", "activated"}
                  => CACHE \in Range(cacheNames))
    /\ [][(actVars' # actVars /\ CACHE \in Range(cacheNames)) =>
            (CACHE \in Range(cacheNames') /\ entries'[CACHE] = entries[CACHE])]_vars

C5_Witness ==
    /\ MaxWorkers >= 2
    /\ wstate[1] = "redundant"
    /\ actPc[1] \in Settled
    /\ wstate[2] = "activated"
    /\ issuedDel[1] # {}
    /\ issuedDel[2] # {}
    /\ pendingDel[1] = {}
    /\ pendingDel[2] = {}
    /\ AssetSet \subseteq Keys(CACHE)

\* C6 (as stated): skipWaiting has been called only when the install unit
\* has completed.
C6_Original ==
    \A w \in Workers : skipWaitingCalls[w] > 0 => instPc[w] \in Settled

\* C6 (amended): skipWaiting is called by the install handler itself, in the
\* step that starts the install unit: from then on, while the open and the
\* asset fetches are outstanding and after, it has been called exactly once.
C6_SkipWaitingWithHandler ==
    \A w \in Workers :
        skipWaitingCalls[w] = IF instPc[w] = "idle" THEN 0 ELSE 1

C6_Witness ==
    \E w \in Workers :
        /\ instPc[w] = "addAll"
        /\ \E a \in AssetSet : fetched[a] = None
        /\ skipWaitingCalls[w] = 1

\* C7 (as stated): clients.claim has been called only when the activate unit
\* has completed and none of its deletions is outstanding.
C7_Original ==
    \A w \in Workers :
        claimCalls[w] > 0 => (actPc[w] \in Settled /\ pendingDel[w] = {})

\* C7 (amended): clients.claim is called by the activate handler itself, in
\* the step that starts the activate unit: it has been called exactly once
\* before the enumeration returns, before any delete is issued, and after.
C7_ClaimWithHandler ==
    \A w \in Workers :
        /\ claimCalls[w] = IF actPc[w] = "idle" THEN 0 ELSE 1
        /\ actPc[w] = "keys" => (issuedDel[w] = {} /\ pendingDel[w] = {})

C7_Witness ==
    \E w \in Workers :
        /\ actPc[w] = "deleting"
        /\ pendingDel[w] # {}
        /\ claimCalls[w] = 1

\* C8: no step of the fetch handler changes the buckets or any entry; an
\* entry appears only when an install's addAll stores its batch (in CACHE)
\* or another generation's install creates its bucket.
C8_FetchLeavesCaches ==
    /\ [][fetchVars' # fetchVars =>
            (cacheNames' = cacheNames /\ entries' = entries)]_vars
    /\ [][\A k \in BucketNames, r \in Requests :
            (entries[k][r] = None /\ entries'[k][r] # None) =>
                \/ k = CACHE /\ \E w \in Workers :
                        instPc[w] = "addAll" /\ instPc'[w] = "resolved"
                \/ k \in external' \ external]_vars

C8_Witness ==
    /\ fPc = "responded"
    /\ fNetCalls = 1
    /\ fResp \in NetBodies
    /\ CACHE \in Range(cacheNames)
    /\ \A k \in BucketNames : entries[k][fReq] = None

\* C9: a worker's state moves only along parsed, installing, installed,
\* activating, activated (or to redundant); it is installed or active only
\* with a fulfilled install unit and every asset stored in CACHE; fetches
\* are handled only by such a worker; a worker whose install unit rejected
\* is never activated, and its becoming redundant leaves the active worker
\* as it was.
Lifecycle ==
    {<<"parsed", "installing">>, <<"installing", "installed">>,
     <<"installing", "redundant">>, <<"installed", "activating">>,
     <<"installed", "redundant">>, <<"activating", "activated">>,
     <<"activated", "redundant">>}

C9_Lifecycle ==
    /\ [][\A w \in Workers :
            wstate'[w] # wstate[w] => <<wstate[w], wstate'[w]>> \in Lifecycle]_vars
    /\ [](\A w \in Workers :
            /\ wstate[w] \in Live =>
                  (instPc[w] = "resolved" /\ AssetSet \subseteq Keys(CACHE))
            /\ instPc[w] = "rejected" =>
                  (wstate[w] \in {"installing", "redundant"} /\ actPc[w] = "idle"))
    /\ [](fPc # "idle" =>
            (fW \in Workers /\ instPc[fW] = "resolved" /\ actPc[fW] \in Settled
               /\ AssetSet \subseteq Keys(CACHE)))
    /\ [][\A w \in Workers :
            (wstate[w] = "installing" /\ wstate'[w] = "redundant") =>
                \A v \in Workers \ {w} : wstate'[v] = wstate[v]]_vars

C9_Witness ==
    \E v, w \in Workers :
        /\ v < w
        /\ wstate[v] = "activated"
        /\ wstate[w] = "redundant"
        /\ instPc[w] = "rejected"
        /\ fPc = "responded"
        /\ fW = v

Pristine ==
    /\ Range(cacheNames) \subseteq {CACHE}
    /\ \A w \in Workers : issuedDel[w] = {}

C11_Scenario ==
    Pristine =>
        /\ (\E w \in Workers : wstate[w] \in {"activating", "activated"}) =>
              (cacheNames = <<CACHE>> /\ Keys(CACHE) = AssetSet)
        /\ (fPc = "responded" /\ fReq = "icon.svg") =>
              (fNetCalls = 0 /\ fFrom = CACHE /\ fResp # None)
        /\ (fPc = "responded" /\ fReq = "other.png") =>
              (fNetCalls = 1 /\ fFrom = NoBucket)

C11_Witness ==
    /\ Pristine
    /\ \E w \in Workers : wstate[w] = "activated" /\ actPc[w] = "resolved"
    /\ Keys(CACHE) = {"ghost.html", "manifest.json", "icon.svg"}
    /\ fPc = "responded"
    /\ fReq = "other.png"
    /\ fNetCalls = 1

\* C12: from the moment some activate unit has been fulfilled, in every
\* state in which no bucket created by another generation's install is
\* present, at most the bucket ghost-v1 is present.
C12_AtMostCurrentBucket ==
    ((\E w \in Workers : actPc[w] = "resolved") /\ external = {})
        => Range(cacheNames) \subseteq {CACHE}

C12_Witness ==
    /\ MaxWorkers >= 2
    /\ actPc[1] = "resolved"
    /\ issuedDel[1] # {}
    /\ wstate[2] = "activated"
    /\ fPc = "responded"
    /\ fW = 2
    /\ external = {}
    /\ cacheNames = <<CACHE>>

\* C13: when the lookup of a fetch settles and the request is held by a
\* bucket other than ghost-v1 but not by ghost-v1, the fetch is answered
\* from that other bucket's entry with no network call.
C13_LookupSpansBuckets ==
    [][(/\ fPc = "match"
        /\ fPc' # "match"
        /\ \E k \in Range(cacheNames) \ {CACHE} : entries[k][fReq] # None
        /\ entries[CACHE][fReq] = None)
       => (/\ fPc' = "responded"
           /\ fNetCalls' = 0
           /\ fFrom' \in Range(cacheNames) \ {CACHE}
           /\ fResp' = entries[fFrom'][fReq]
           /\ fResp' # None)]_vars

C13_Witness ==
    /\ fPc = "responded"
    /\ fReq = "other.png"
    /\ fFrom = "ghost-v0"
    /\ fResp = OldBody
    /\ fNetCalls = 0
    /\ CACHE \in Range(cacheNames)

\* C14: when the network call of a fetch fails, the response is that error,
\* after exactly one network call; the step changes nothing but the fetch
\* itself (no bucket, no entry, no lifecycle state, no unit), and once the
\* response is delivered the handler is back in its initial state.
C14_NetworkErrorIsLocal ==
    /\ []((fPc = "responded" /\ fNetResult = NetErr) =>
            (fResp = NetErr /\ fNetCalls = 1 /\ fFrom = NoBucket))
    /\ [][(fPc = "net" /\ fPc' # "net") =>
            (/\ fPc' = "responded"
             /\ fNetCalls' = fNetCalls
             /\ UNCHANGED <<cacheVars, hostVars, instVars, actVars>>)]_vars
    /\ [](fPc = "idle" =>
            (fResp = None /\ fNetCalls = 0 /\ fNetResult = None /\ fFrom = NoBucket))

C14_Witness ==
    /\ fPc = "responded"
    /\ fNetResult = NetErr
    /\ fResp = NetErr
    /\ fNetCalls = 1
    /\ fW \in Workers
    /\ wstate[fW] = "activated"

\* C15: a delete that fails leaves every bucket as it was and is not issued
\* again by that activate (after the enumeration no delete is added); every
\* activate issues a delete for each non-current bucket present at its
\* enumeration, so for a bucket left by an earlier failed delete too.
C15_FailedDeleteLeftForLater ==
    /\ [][\A w \in Workers :
            rejectedDel'[w] # rejectedDel[w] =>
                (/\ cacheVars' = cacheVars
                 /\ issuedDel' = issuedDel
                 /\ pendingDel'[w] \cap rejectedDel'[w] = {})]_vars
    /\ [][\A w \in Workers :
            actPc[w] \notin {"idle", "keys"} =>
                (issuedDel'[w] = issuedDel[w] /\ pendingDel'[w] \subseteq pendingDel[w])]_vars
    /\ [][\A w \in Workers :
            (actPc[w] = "keys" /\ actPc'[w] # "keys") =>
                (/\ issuedDel'[w] = Range(cacheNames) \ {CACHE}
                 /\ pendingDel'[w] = issuedDel'[w])]_vars

C15_Witness ==
    \E v, w \in Workers : \E k \in StaleNames :
        /\ v < w
        /\ k \in rejectedDel[v]
        /\ pendingDel[v] = {}
        /\ k \in issuedDel[w]
        /\ k \in pendingDel[w]
        /\ k \in Range(cacheNames)
        /\ external = {}

\* C16: provided every awaited operation returns, an install unit that
\* has begun is eventually fulfilled or rejected, and so is an activate
\* unit; a settled unit keeps its outcome, and a unit is never in any state
\* other than not begun, pending, fulfilled or rejected.
C16_UnitsSettle ==
    /\ \A w \in Workers : (instPc[w] = "open") ~> (instPc[w] \in Settled)
    /\ \A w \in Workers : (actPc[w] = "keys") ~> (actPc[w] \in Settled)
    /\ [][\A w \in Workers :
            /\ instPc[w] \in Settled => instPc'[w] = instPc[w]
            /\ actPc[w] \in Settled => actPc'[w] = actPc[w]]_vars
    /\ [](\A w \in Workers :
            /\ instPc[w] \in {"idle", "open", "addAll"} \cup Settled
            /\ actPc[w] \in {"idle", "keys", "deleting"} \cup Settled)

C16_Witness ==
    \E v, w \in Workers :
        /\ instPc[v] = "resolved"
        /\ actPc[v] = "rejected"
        /\ pendingDel[v] = {}
        /\ instPc[w] = "rejected"
        /\ assetFailed[w]

\* C17: skipWaiting is called at most once per worker, never before its
\* install event, and exactly once by the time the host has the install
\* unit's outcome, fulfilled or rejected; clients.claim is called at most
\* once, never before the activate event, and exactly once by the time the
\* host has the activate unit's outcome, whatever the deletes did.
C17_OneSignalPerEvent ==
    \A w \in Workers :
        /\ skipWaitingCalls[w] <= 1
        /\ wstate[w] = "parsed" => skipWaitingCalls[w] = 0
        /\ wstate[w] \notin {"parsed", "installing"} => skipWaitingCalls[w] = 1
        /\ claimCalls[w] <= 1
        /\ actPc[w] = "idle" => claimCalls[w] = 0
        /\ (actPc[w] # "idle" /\ wstate[w] # "activating") => claimCalls[w] = 1

C17_Witness ==
    \E v, w \in Workers :
        /\ wstate[v] = "redundant"
        /\ instPc[v] = "rejected"
        /\ skipWaitingCalls[v] = 1
        /\ claimCalls[v] = 0
        /\ wstate[w] = "activated"
        /\ actPc[w] = "rejected"
        /\ claimCalls[w] = 1

\* C18 (as stated): after an install unit has failed the bucket ghost-v1
\* exists, and only the step that fulfils an install unit changes its
\* entries.
C18_Original ==
    /\ [](\A w \in Workers : instPc[w] = "rejected" => CACHE \in Range(cacheNames))
    /\ [][entries'[CACHE] # entries[CACHE] =>
            \E w \in Workers : instPc[w] = "addAll" /\ instPc'[w] = "resolved"]_vars

\* C18 (amended): only the step that fulfils an install unit changes the
\* entries of ghost-v1, so a failed install leaves them as they were when it
\* began; the bucket exists after a failure of an asset fetch or of the
\* store (the open had succeeded), not necessarily after a failed open.
C18_NoPartialStore ==
    /\ [](\A w \in Workers :
            (instPc[w] = "rejected" /\ assetFailed[w]) => CACHE \in Range(cacheNames))
    /\ [][entries'[CACHE] # entries[CACHE] =>
            \E w \in Workers : instPc[w] = "addAll" /\ instPc'[w] = "resolved"]_vars
    /\ [][\A w \in Workers :
            (instPc[w] # "rejected" /\ instPc'[w] = "rejected") =>
                (entries' = entries
                 /\ Range(cacheNames') = Range(cacheNames))]_vars

C18_Witness ==
    \E w \in Workers :
        /\ instPc[w] = "rejected"
        /\ assetFailed[w]
        /\ wstate[w] = "redundant"
        /\ CACHE \in Range(cacheNames)
        /\ Keys(CACHE) = {}

\* C19: a step of an activate unit creates no bucket and changes no entry of
\* a bucket that stays: the buckets after it are among those before it.
C19_ActivateOnlyDeletes ==
    [][actVars' # actVars =>
          /\ Range(cacheNames') \subseteq Range(cacheNames)
          /\ \A k \in Range(cacheNames') : entries'[k] = entries[k]
          /\ \A i, j \in 1..Len(cacheNames') :
                i < j => \E a, b \in 1..Len(cacheNames) :
                    a < b /\ cacheNames[a] = cacheNames'[i]
                          /\ cacheNames[b] = cacheNames'[j]]_vars

C19_Witness ==
    \E w \in Workers :
        /\ wstate[w] = "activating"
        /\ actPc[w] = "deleting"
        /\ Cardinality(issuedDel[w]) = 2
        /\ Cardinality(pendingDel[w]) = 1
        /\ rejectedDel[w] = {}
        /\ Len(cacheNames) = 2
        /\ Keys(CACHE) = AssetSet

\* C20: an activate issues its deletes once, one per non-current name of
\* its single enumeration, and adds none afterwards; a bucket disappears
\* only in the step that settles a delete issued for its name, so a bucket
\* created after the enumeration under a name outside the snapshot is not
\* deleted by that activate.
C20_DeletesFromSnapshotOnly ==
    /\ [](\A w \in Workers : pendingDel[w] \subseteq issuedDel[w])
    /\ [][\A w \in Workers :
            issuedDel'[w] # issuedDel[w] =>
                (actPc[w] = "keys" /\ issuedDel[w] = {}
                 /\ issuedDel'[w] \subseteq Range(cacheNames))]_vars
    /\ [][\A k \in Range(cacheNames) :
            k \notin Range(cacheNames') =>
                \E w \in Workers : k \in pendingDel[w] /\ k \notin pendingDel'[w]]_vars
    /\ [][\A w \in Workers : \A k \in Range(cacheNames) \ issuedDel[w] :
            (actPc[w] = "deleting" /\ pendingDel'[w] # pendingDel[w])
                => k \in Range(cacheNames')]_vars

C20_Witness ==
    \E w \in Workers : \E k \in external :
        /\ wstate[w] = "activating"
        /\ actPc[w] = "resolved"
        /\ issuedDel[w] # {}
        /\ k \notin issuedDel[w]
        /\ k \in Range(cacheNames)

====
